---- MODULE Spec2Model ----
(***************************************************************************)
(* Model of the rapid-annotate application: the App component (uploads,    *)
(* detection runs, the per-image result store, the editor session) and the *)
(* InteractiveAnnotator component (the pointer-driven box editor), with    *)
(* the label colour allocator and the Gemini service they call.            *)
(*                                                                         *)
(* Normalized coordinates (JavaScript numbers in [0,1]) are fixed-point    *)
(* integers in units of 0.005, half of the minimum extent 0.01; the        *)
(* layouts and pointer positions used are such that every division of the  *)
(* source is exact.                                                         *)
(* A JavaScript null is the empty record <<>> where the value is an object *)
(* and the string "null" where it is a string; an absent (undefined) field *)
(* of an object is a field missing from the record's DOMAIN.               *)
(***************************************************************************)
EXTENDS Integers, Sequences, FiniteSets, TLC

\* ------------------------------------------------------------------ bounds
MaxBoxes == 2       \* boxes in one working set
MaxId == 4          \* box ids handed out by crypto.randomUUID()
MaxImages == 2      \* images uploaded in one run
MaxCalls == 2       \* kinds of assist call in flight: of the open session, of closed ones
MaxPresses == 2     \* pointer presses in one run
MaxColorCalls == 5  \* calls of getLabelColor between two resets
MaxResets == 1      \* calls of resetLabelColors by the allocator's caller

\* --------------------------------------------------------------- constants
MinExtent == 2                      \* 0.01 in units of 0.005
One == 100 * MinExtent              \* 1.0
HandlePixels == 10                  \* handleSize numerator
HandleRadius == 5                   \* r="5" of the handle circles
GEMINI_IMAGE_BATCH_SIZE == 1
BOUNDING_BOX_COLORS == <<"red", "green", "blue">>

Null == <<>>
NoId == 0

\* ------------------------------------------------------------------ inputs
ImageSize == <<200, 100>>           \* naturalWidth, naturalHeight
SvgOrigin == <<10, 0>>              \* svgRect.left, svgRect.top
ContainerSizes == {<<200, 200>>}    \* svgRect.width, svgRect.height
\* clientX, clientY of the pointer: outside the svg and above the image, three
\* points of the image, 7 pixels right of the third, and beyond the image's
\* bottom right corner
ClientPoints == {<<0, 20>>, <<50, 70>>, <<110, 100>>, <<117, 100>>, <<230, 170>>}
Labels == {"cat", "dog"}
Handles == <<"nw", "ne", "sw", "se">>

\* ----------------------------------------------------------------- helpers
Min(a, b) == IF a < b THEN a ELSE b
Max(a, b) == IF a > b THEN a ELSE b
Abs(a) == IF a < 0 THEN -a ELSE a
Has(o, f) == f \in DOMAIN o

Range(s) == {s[i] : i \in DOMAIN s}

RECURSIVE SeqFilter(_, _)
\* Array.prototype.filter: the elements of s at the indices in keep, in order
SeqFilter(s, keep) ==
  IF s = <<>> THEN <<>>
  ELSE (IF 1 \in keep THEN <<Head(s)>> ELSE <<>>)
       \o SeqFilter(Tail(s), {i - 1 : i \in keep \ {1}})

\* boxes.find(b => b.id === id): the first match, or Null
FindBox(bs, id) ==
  IF \E i \in DOMAIN bs : bs[i].id = id
  THEN bs[CHOOSE i \in DOMAIN bs : bs[i].id = id /\ \A j \in 1..(i-1) : bs[j].id # id]
  ELSE Null

StripColor(b) == [f \in DOMAIN b \ {"color"} |-> b[f]]

VARIABLES
  \* utils/colorUtils.ts
  labelColorMap, colorIndex,
  \* crypto.randomUUID(): the next unused id
  nextId,
  \* App
  annotationMode, uploadedImages, processedResults, isLoading, appError,
  apiKeyPresent, editingState, detection, uploads, nextImageId,
  \* InteractiveAnnotator
  boxes, selectedBoxId, interactionMode, currentDrawingBox, resizeHandle,
  assistPrompt, isAssisting, assistError, imageRenderSize,
  \* the pointer presses the editor has handled so far
  presses,
  \* the Draw press in progress: where the button went down and where the pointer
  \* is now (both normalized), or Null when no press that began a drawing is held
  pointer,
  \* what a caller of colorUtils alone has seen: the resets it made and, since the
  \* last of them, the label of each getLabelColor call and the color it returned
  colorCalls,
  \* the assist calls that have neither resolved nor failed
  assistCalls

colorVars == <<labelColorMap, colorIndex>>
appVars == <<annotationMode, uploadedImages, processedResults, isLoading, appError,
             apiKeyPresent, editingState, detection, uploads, nextImageId>>
gestureVars == <<interactionMode, currentDrawingBox, resizeHandle>>
assistVars == <<assistPrompt, isAssisting, assistError, assistCalls>>
editorVars == <<boxes, selectedBoxId, interactionMode, currentDrawingBox, resizeHandle,
                assistPrompt, isAssisting, assistError, imageRenderSize>>
inputVars == <<presses, pointer, colorCalls>>
vars == <<labelColorMap, colorIndex, nextId, appVars, editorVars, inputVars, assistCalls>>


\* ------------------------------------------------- utils/colorUtils.ts
ColorState == [map |-> labelColorMap, idx |-> colorIndex]

\* the allocator after getLabelColor(label)
AfterGetLabelColor(cs, label) ==
  IF label \in DOMAIN cs.map THEN cs
  ELSE [map |-> (label :> BOUNDING_BOX_COLORS[(cs.idx % Len(BOUNDING_BOX_COLORS)) + 1]) @@ cs.map,
        idx |-> cs.idx + 1]

\* the value getLabelColor(label) returns
getLabelColor(cs, label) == AfterGetLabelColor(cs, label).map[label]

RECURSIVE AfterColoring(_, _)
\* the allocator after getLabelColor was called for each box of bs in turn
AfterColoring(cs, bs) ==
  IF bs = <<>> THEN cs ELSE AfterColoring(AfterGetLabelColor(cs, Head(bs).label), Tail(bs))

RECURSIVE WithColors(_, _)
\* bs.map(b => ({...b, color: getLabelColor(b.label)}))
WithColors(cs, bs) ==
  IF bs = <<>> THEN <<>>
  ELSE <<[color |-> getLabelColor(cs, Head(bs).label)] @@ StripColor(Head(bs))>>
       \o WithColors(AfterGetLabelColor(cs, Head(bs).label), Tail(bs))

\* the allocator of a module that has just been loaded
InitialColors == [map |-> <<>>, idx |-> 0]

\* a reset that clears the map and keeps the counter
StaleIndexColors == [map |-> <<>>, idx |-> colorIndex]

FreshColors == [map |-> <<>>, idx |-> 0]      \* after resetLabelColors()

SetColors(cs) == labelColorMap' = cs.map /\ colorIndex' = cs.idx

\* ------------------------------------------------- coordinate mapping
NoLayout == [width |-> 0, height |-> 0, offsetX |-> 0, offsetY |-> 0]

\* updateRenderSize for an svg of cw x ch pixels
RenderSize(cw, ch) ==
  LET natW == ImageSize[1]
      natH == ImageSize[2]
      wider == natW * ch > cw * natH
      rw == IF wider THEN cw ELSE (ch * natW) \div natH
      rh == IF wider THEN (cw * natH) \div natW ELSE ch
  IN [width |-> rw, height |-> rh, offsetX |-> (cw - rw) \div 2, offsetY |-> (ch - rh) \div 2]

Clamp01(v) == Max(0, Min(One, v))

\* a conversion that divides and does not clamp
getNormalizedCoordsUnclamped(p) ==
  IF imageRenderSize.width = 0 THEN Null
  ELSE [x |-> ((p[1] - SvgOrigin[1] - imageRenderSize.offsetX) * One) \div imageRenderSize.width,
        y |-> ((p[2] - SvgOrigin[2] - imageRenderSize.offsetY) * One) \div imageRenderSize.height]

getNormalizedCoords(p) ==
  IF imageRenderSize.width = 0 THEN Null
  ELSE [x |-> Clamp01(((p[1] - SvgOrigin[1] - imageRenderSize.offsetX) * One) \div imageRenderSize.width),
        y |-> Clamp01(((p[2] - SvgOrigin[2] - imageRenderSize.offsetY) * One) \div imageRenderSize.height)]

\* getNormalizedCoords for a pointer at the svg position q, in pixels times One
getNormalizedCoordsAt(q) ==
  IF imageRenderSize.width = 0 THEN Null
  ELSE [x |-> Clamp01((q.x - imageRenderSize.offsetX * One) \div imageRenderSize.width),
        y |-> Clamp01((q.y - imageRenderSize.offsetY * One) \div imageRenderSize.height)]

\* toDisplayCoords returns {} for these boxes: nothing is drawn for them
Displayed(b) ==
  /\ b.x_min # 0 /\ b.y_min # 0 /\ b.width # 0 /\ b.height # 0
  /\ imageRenderSize.width # 0

\* the pointer, in svg pixels times One, and a box's displayed rectangle in the same scale
PointerPx(p) == [x |-> (p[1] - SvgOrigin[1]) * One, y |-> (p[2] - SvgOrigin[2]) * One]

toDisplayCoords(b) ==
  [x |-> b.x_min * imageRenderSize.width + imageRenderSize.offsetX * One,
   y |-> b.y_min * imageRenderSize.height + imageRenderSize.offsetY * One,
   width |-> b.width * imageRenderSize.width,
   height |-> b.height * imageRenderSize.height]

getHandlePositions(b) ==
  LET d == toDisplayCoords(b)
  IN [nw |-> [cx |-> d.x, cy |-> d.y],
      ne |-> [cx |-> d.x + d.width, cy |-> d.y],
      sw |-> [cx |-> d.x, cy |-> d.y + d.height],
      se |-> [cx |-> d.x + d.width, cy |-> d.y + d.height]]

\* the pointer is within the circle of radius 5 pixels around c
OnCircle(p, c) ==
  LET dx == PointerPx(p).x - c.cx
      dy == PointerPx(p).y - c.cy
  IN /\ Abs(dx) <= HandleRadius * One
     /\ Abs(dy) <= HandleRadius * One
     /\ dx * dx + dy * dy <= HandleRadius * HandleRadius * One * One

OnRect(p, b) ==
  LET q == PointerPx(p)
      d == toDisplayCoords(b)
  IN Displayed(b) /\ d.x <= q.x /\ q.x <= d.x + d.width /\ d.y <= q.y /\ q.y <= d.y + d.height

\* The handle circle a press at p lands on: the circles belong to the selected
\* box's group, later circles are painted over earlier ones and the groups of
\* later boxes over the whole group.  0 when the press lands on no circle.
HandleUnder(p) ==
  LET sel == {i \in DOMAIN boxes : boxes[i].id = selectedBoxId /\ Displayed(boxes[i])}
  IN IF sel = {} THEN 0
     ELSE LET i == CHOOSE j \in sel : \A k \in sel : k <= j
              pos == getHandlePositions(boxes[i])
              on == {h \in DOMAIN Handles : OnCircle(p, pos[Handles[h]])}
          IN IF on = {} \/ \E k \in DOMAIN boxes : k > i /\ OnRect(p, boxes[k]) THEN 0
             ELSE CHOOSE h \in on : \A g \in on : g <= h

\* ------------------------------------------------- InteractiveAnnotator
EditorOpen == editingState # Null

selectedBoxDetails == FindBox(boxes, selectedBoxId)

\* |coords - bottom-right corner| < handleSize = 10 / min(width, height) on both axes
NearSE(coords, b) ==
  LET m == Min(imageRenderSize.width, imageRenderSize.height)
  IN /\ Abs(coords.x - (b.x_min + b.width)) * m < HandlePixels * One
     /\ Abs(coords.y - (b.y_min + b.height)) * m < HandlePixels * One

\* a containment test that leaves out the box's border
ContainsStrictly(b, coords) ==
  /\ coords.x > b.x_min /\ coords.x < b.x_min + b.width
  /\ coords.y > b.y_min /\ coords.y < b.y_min + b.height

Contains(b, coords) ==
  /\ coords.x >= b.x_min /\ coords.x <= b.x_min + b.width
  /\ coords.y >= b.y_min /\ coords.y <= b.y_min + b.height

\* the svg's onMouseDown
handleMouseDown(p) ==
  LET coords == getNormalizedCoords(p) IN
  IF coords = Null THEN UNCHANGED <<boxes, selectedBoxId, gestureVars>>
  ELSE IF interactionMode = "draw"
  THEN /\ currentDrawingBox' = [x_min |-> coords.x, y_min |-> coords.y, width |-> 0, height |-> 0]
       /\ UNCHANGED <<boxes, selectedBoxId, interactionMode, resizeHandle>>
  ELSE LET selectedBox == FindBox(boxes, selectedBoxId)
           hits == {i \in DOMAIN boxes : Contains(boxes[i], coords)}
       IN IF selectedBox # Null /\ NearSE(coords, selectedBox)
          THEN /\ interactionMode' = "resize"
               /\ resizeHandle' = "se"
               /\ UNCHANGED <<boxes, selectedBoxId, currentDrawingBox>>
          ELSE IF hits # {}
          THEN LET box == boxes[CHOOSE i \in hits : \A j \in hits : j <= i]
               IN /\ selectedBoxId' = box.id
                  /\ interactionMode' = "move"
                  /\ currentDrawingBox' = [startX |-> coords.x, startY |-> coords.y,
                                           boxInitialX |-> box.x_min, boxInitialY |-> box.y_min]
                  /\ UNCHANGED <<boxes, resizeHandle>>
          ELSE /\ selectedBoxId' = NoId
               /\ interactionMode' = IF interactionMode \in {"move", "resize"}
                                     THEN "select" ELSE interactionMode
               /\ UNCHANGED <<boxes, currentDrawingBox, resizeHandle>>

\* the onMouseDown of a handle circle of the selected box
handleCircleMouseDown(p, h) ==
  LET box == boxes[CHOOSE i \in DOMAIN boxes : boxes[i].id = selectedBoxId /\ Displayed(boxes[i])
                                 /\ \A k \in DOMAIN boxes :
                                      boxes[k].id = selectedBoxId /\ Displayed(boxes[k]) => k <= i]
      coords == getNormalizedCoords(p)
  IN /\ interactionMode' = "resize"
     /\ resizeHandle' = Handles[h]
     /\ currentDrawingBox' = IF coords # Null
                             THEN [startX |-> coords.x, startY |-> coords.y] @@ box
                             ELSE currentDrawingBox
     /\ UNCHANGED <<boxes, selectedBoxId>>

\* a pointer-down at p: on a handle circle (which stops propagation) or on the svg
MouseDown(p) ==
  /\ EditorOpen
  /\ presses < MaxPresses
  /\ presses' = presses + 1
  /\ UNCHANGED colorCalls
  /\ pointer' = IF getNormalizedCoords(p) = Null \/ interactionMode # "draw" \/ HandleUnder(p) # 0
                THEN Null
                ELSE [press |-> getNormalizedCoords(p), at |-> getNormalizedCoords(p)]
  /\ IF HandleUnder(p) # 0 THEN handleCircleMouseDown(p, HandleUnder(p)) ELSE handleMouseDown(p)
  /\ UNCHANGED <<colorVars, nextId, appVars, assistVars, imageRenderSize>>

MoveDraw(cdb, coords) ==
  [cdb EXCEPT !.width = Abs(coords.x - cdb.x_min),
              !.height = Abs(coords.y - cdb.y_min),
              !.x_min = Min(coords.x, cdb.x_min),
              !.y_min = Min(coords.y, cdb.y_min)]

\* a move that adds the pointer's displacement to where the box is now
MoveBoxFromCurrent(b, width, height, cdb, coords) ==
  [b EXCEPT !.x_min = Max(0, Min(b.x_min + (coords.x - cdb.startX), One - width)),
            !.y_min = Max(0, Min(b.y_min + (coords.y - cdb.startY), One - height)),
            !.source = "human-edited"]

\* a move that follows the pointer without the clamp
MoveBoxUnclamped(b, width, height, cdb, coords) ==
  [b EXCEPT !.x_min = cdb.boxInitialX + (coords.x - cdb.startX),
            !.y_min = cdb.boxInitialY + (coords.y - cdb.startY),
            !.source = "human-edited"]

\* { ...b, x_min: newXMin, y_min: newYMin, source: 'human-edited' }, the new origin
\* clamped with the selected box's width and height
MoveBox(b, width, height, cdb, coords) ==
  [b EXCEPT !.x_min = Max(0, Min(cdb.boxInitialX + (coords.x - cdb.startX), One - width)),
            !.y_min = Max(0, Min(cdb.boxInitialY + (coords.y - cdb.startY), One - height)),
            !.source = "human-edited"]

\* { ...b, x_min, y_min, width, height, source: 'human-edited' }, the geometry
\* computed from the selected box sel
ResizeBox(b, sel, handle, coords) ==
  LET width0 == IF handle = "se" THEN Max(MinExtent, coords.x - sel.x_min) ELSE sel.width
      height0 == IF handle = "se" THEN Max(MinExtent, coords.y - sel.y_min) ELSE sel.height
  IN [b EXCEPT !.x_min = sel.x_min,
               !.y_min = sel.y_min,
               !.width = IF sel.x_min + width0 > One THEN One - sel.x_min ELSE width0,
               !.height = IF sel.y_min + height0 > One THEN One - sel.y_min ELSE height0,
               !.source = "human-edited"]

\* the svg's onMouseMove
handleMouseMove(p) ==
  LET coords == getNormalizedCoords(p)
      cdb == currentDrawingBox
      selectedBox == FindBox(boxes, selectedBoxId)
  IN
  IF coords = Null \/ cdb = Null THEN UNCHANGED <<boxes, currentDrawingBox>>
  ELSE IF interactionMode = "draw" /\ Has(cdb, "x_min") /\ Has(cdb, "y_min")
  THEN /\ currentDrawingBox' = MoveDraw(cdb, coords)
       /\ UNCHANGED boxes
  ELSE IF interactionMode = "move" /\ selectedBoxId # NoId /\ Has(cdb, "startX")
  THEN IF selectedBox = Null \/ ~Has(cdb, "boxInitialX") \/ ~Has(cdb, "boxInitialY")
       THEN UNCHANGED <<boxes, currentDrawingBox>>
       ELSE /\ boxes' = [i \in DOMAIN boxes |->
                           IF boxes[i].id = selectedBoxId
                           THEN MoveBox(boxes[i], selectedBox.width, selectedBox.height, cdb, coords)
                           ELSE boxes[i]]
            /\ UNCHANGED currentDrawingBox
  ELSE IF interactionMode = "resize" /\ selectedBoxId # NoId /\ resizeHandle # "null"
  THEN IF selectedBox = Null
       THEN UNCHANGED <<boxes, currentDrawingBox>>
       ELSE /\ boxes' = [i \in DOMAIN boxes |->
                           IF boxes[i].id = selectedBoxId
                           THEN ResizeBox(boxes[i], selectedBox, resizeHandle, coords)
                           ELSE boxes[i]]
            /\ UNCHANGED currentDrawingBox
  ELSE UNCHANGED <<boxes, currentDrawingBox>>

MouseMove(p) ==
  /\ EditorOpen
  /\ handleMouseMove(p)
  /\ pointer' = IF pointer = Null \/ getNormalizedCoords(p) = Null THEN pointer
                ELSE [pointer EXCEPT !.at = getNormalizedCoords(p)]
  /\ UNCHANGED <<colorVars, nextId, appVars, assistVars, imageRenderSize, presses, colorCalls,
                 selectedBoxId, interactionMode, resizeHandle>>

\* a committed box that is marked as an edit of an existing one
NewBoxAsEdit(cdb, id, newLabel, cs) ==
  [id |-> id, label |-> newLabel, x_min |-> cdb.x_min, y_min |-> cdb.y_min,
   width |-> cdb.width, height |-> cdb.height, source |-> "human-edited",
   color |-> getLabelColor(cs, newLabel)]

\* the box a draw commits
NewBox(cdb, id, newLabel, cs) ==
  [id |-> id, label |-> newLabel, x_min |-> cdb.x_min, y_min |-> cdb.y_min,
   width |-> cdb.width, height |-> cdb.height, source |-> "human-added",
   color |-> getLabelColor(cs, newLabel)]

\* currentDrawingBox && currentDrawingBox.width && currentDrawingBox.height
DrawnExtent(cdb) ==
  /\ cdb # Null
  /\ Has(cdb, "width") /\ cdb.width # 0
  /\ Has(cdb, "height") /\ cdb.height # 0

\* a pointer-up that adds the drawn box under the prompt's default label when the
\* user gives none
handleMouseUpDefaultLabel(newLabel) ==
  /\ IF interactionMode = "draw" /\ DrawnExtent(currentDrawingBox)
     THEN LET label == IF newLabel # "" THEN newLabel ELSE "new object"
          IN /\ Len(boxes) < MaxBoxes /\ nextId <= MaxId
             /\ boxes' = Append(boxes, NewBox(currentDrawingBox, nextId, label, ColorState))
             /\ selectedBoxId' = nextId
             /\ nextId' = nextId + 1
             /\ SetColors(AfterGetLabelColor(ColorState, label))
     ELSE UNCHANGED <<boxes, selectedBoxId, nextId, colorVars>>
  /\ interactionMode' = IF interactionMode \in {"move", "resize"} THEN "select" ELSE interactionMode
  /\ currentDrawingBox' = Null
  /\ resizeHandle' = "null"

\* a pointer-up that also drops the selection when it ends a move or a resize
handleMouseUpDeselecting(newLabel) ==
  /\ IF interactionMode = "draw" /\ DrawnExtent(currentDrawingBox) /\ newLabel # ""
     THEN /\ Len(boxes) < MaxBoxes /\ nextId <= MaxId
          /\ boxes' = Append(boxes, NewBox(currentDrawingBox, nextId, newLabel, ColorState))
          /\ selectedBoxId' = nextId
          /\ nextId' = nextId + 1
          /\ SetColors(AfterGetLabelColor(ColorState, newLabel))
     ELSE /\ selectedBoxId' = IF interactionMode \in {"move", "resize"} THEN NoId ELSE selectedBoxId
          /\ UNCHANGED <<boxes, nextId, colorVars>>
  /\ interactionMode' = IF interactionMode \in {"move", "resize"} THEN "select" ELSE interactionMode
  /\ currentDrawingBox' = Null
  /\ resizeHandle' = "null"

\* the svg's onMouseUp and onMouseLeave; newLabel is what prompt() returns
handleMouseUp(newLabel) ==
  /\ IF interactionMode = "draw" /\ DrawnExtent(currentDrawingBox) /\ newLabel # ""
     THEN /\ Len(boxes) < MaxBoxes /\ nextId <= MaxId
          /\ boxes' = Append(boxes, NewBox(currentDrawingBox, nextId, newLabel, ColorState))
          /\ selectedBoxId' = nextId
          /\ nextId' = nextId + 1
          /\ SetColors(AfterGetLabelColor(ColorState, newLabel))
     ELSE UNCHANGED <<boxes, selectedBoxId, nextId, colorVars>>
  /\ interactionMode' = IF interactionMode \in {"move", "resize"} THEN "select" ELSE interactionMode
  /\ currentDrawingBox' = Null
  /\ resizeHandle' = "null"

\* a pointer-up or the pointer leaving the svg; prompt() is only shown for a drawn
\* box and then returns newLabel, "" standing for Cancel as well
MouseUp(newLabel) ==
  /\ EditorOpen
  /\ (interactionMode = "draw" /\ DrawnExtent(currentDrawingBox)) \/ newLabel = ""
  /\ handleMouseUp(newLabel)
  /\ pointer' = Null
  /\ UNCHANGED <<appVars, assistVars, imageRenderSize, presses, colorCalls>>

\* the Select and Draw Box buttons
SelectTool(mode) ==
  /\ EditorOpen
  /\ mode \in {"select", "draw"}
  /\ interactionMode' = mode
  /\ UNCHANGED <<colorVars, nextId, appVars, assistVars, imageRenderSize, inputVars,
                 boxes, selectedBoxId, currentDrawingBox, resizeHandle>>

\* a label edit that leaves the box the color it had
RelabelKeepingColor(b, newLabel, cs) ==
  [b EXCEPT !.label = newLabel, !.source = "human-edited"]

\* a label edit that replaces the box by one with another id
RelabelReissuingId(b, newLabel, cs) ==
  [b EXCEPT !.id = b.id + 1, !.label = newLabel, !.source = "human-edited",
            !.color = getLabelColor(cs, newLabel)]

Relabel(b, newLabel, cs) ==
  [b EXCEPT !.label = newLabel, !.source = "human-edited", !.color = getLabelColor(cs, newLabel)]

\* the label input's onChange: the input shows the selected box's label, newLabel differs
handleLabelChange(newLabel) ==
  /\ EditorOpen
  /\ selectedBoxDetails # Null
  /\ newLabel # selectedBoxDetails.label
  /\ selectedBoxId # NoId
  /\ boxes' = [i \in DOMAIN boxes |->
                 IF boxes[i].id = selectedBoxId THEN Relabel(boxes[i], newLabel, ColorState)
                 ELSE boxes[i]]
  /\ SetColors(AfterGetLabelColor(ColorState, newLabel))
  /\ UNCHANGED <<nextId, appVars, assistVars, imageRenderSize, inputVars, selectedBoxId, gestureVars>>

\* a filter that also drops the boxes after the one with the id
WithoutBoxAndLater(bs, id) ==
  SeqFilter(bs, {i \in DOMAIN bs : \A k \in 1..i : bs[k].id # id})

WithoutBox(bs, id) == SeqFilter(bs, {i \in DOMAIN bs : bs[i].id # id})

\* a Delete Selected button that leaves the selection on the removed box
handleDeleteSelectedKeepingSelection ==
  /\ EditorOpen
  /\ selectedBoxDetails # Null
  /\ selectedBoxId # NoId
  /\ boxes' = WithoutBox(boxes, selectedBoxId)
  /\ UNCHANGED <<colorVars, nextId, appVars, assistVars, imageRenderSize, inputVars, gestureVars,
                 selectedBoxId>>

\* the Delete Selected Box button
handleDeleteSelected ==
  /\ EditorOpen
  /\ selectedBoxDetails # Null
  /\ selectedBoxId # NoId
  /\ boxes' = WithoutBox(boxes, selectedBoxId)
  /\ selectedBoxId' = NoId
  /\ UNCHANGED <<colorVars, nextId, appVars, assistVars, imageRenderSize, inputVars, gestureVars>>

\* the image's load event and the ResizeObserver of the svg
updateRenderSize(c) ==
  /\ EditorOpen
  /\ imageRenderSize' = RenderSize(c[1], c[2])
  /\ imageRenderSize' # imageRenderSize
  /\ UNCHANGED <<colorVars, nextId, appVars, assistVars, inputVars, boxes, selectedBoxId, gestureVars>>

\* ------------------------------------------------- services/geminiService.ts
\* Entries of a parsed response.  A field of the wrong type fails the same typeof
\* test as a missing one and is modelled as missing.
RawCat == [label |-> "cat", x_min |-> 40, y_min |-> 40, width |-> 60, height |-> 60]
RawOutside == [label |-> "dog", x_min |-> 180, y_min |-> 100, width |-> 100, height |-> 0]
RawUntyped == [label |-> "dog", x_min |-> 20, y_min |-> 20, width |-> 40]
RawEcho == [label |-> "cat", x_min |-> 100, y_min |-> 100, width |-> 60, height |-> 60,
            id |-> 1, source |-> "human-edited"]

NotAnArray == [isArray |-> FALSE, entries |-> <<>>]
ArrayOf(entries) == [isArray |-> TRUE, entries |-> entries]

AssistPayloads == {NotAnArray, ArrayOf(<<>>), ArrayOf(<<RawUntyped, RawCat>>),
                   ArrayOf(<<RawOutside>>), ArrayOf(<<RawEcho, RawCat>>)}

WellTyped(b) == {"label", "x_min", "y_min", "width", "height"} \subseteq DOMAIN b

RECURSIVE ValidatedUntilMismatch(_, _, _)
\* a validation that stops at the first entry failing the typeof tests
ValidatedUntilMismatch(entries, id, source) ==
  IF entries = <<>> \/ ~WellTyped(Head(entries)) THEN <<>>
  ELSE <<[id |-> id, source |-> source] @@ Head(entries)>>
       \o ValidatedUntilMismatch(Tail(entries), id + 1, source)

RECURSIVE ValidatedFrom(_, _, _)
\* the entries that pass the typeof tests, each as { ...b, id: crypto.randomUUID(), source }
ValidatedFrom(entries, id, source) ==
  IF entries = <<>> THEN <<>>
  ELSE IF WellTyped(Head(entries))
       THEN <<[id |-> id, source |-> source] @@ Head(entries)>>
            \o ValidatedFrom(Tail(entries), id + 1, source)
       ELSE ValidatedFrom(Tail(entries), id, source)

\* what generateAssistedAnnotations returns for a parsed response
validatedNewBoxes(payload, id) ==
  IF payload.isArray THEN ValidatedFrom(payload.entries, id, "gemini-assisted") ELSE <<>>

\* ------------------------------------------------- Gemini Assist in the editor
AssistFailures ==
  IF apiKeyPresent THEN {"Gemini API quota exceeded", "invalid JSON response"}
  ELSE {"Gemini API client is not initialized"}

\* the Gemini Assist textarea
setAssistPrompt(text) ==
  /\ EditorOpen
  /\ ~isAssisting
  /\ text # assistPrompt
  /\ assistPrompt' = text
  /\ UNCHANGED <<colorVars, nextId, appVars, boxes, selectedBoxId, gestureVars,
                 isAssisting, assistError, assistCalls, imageRenderSize, inputVars>>

\* an Ask Gemini button that stays enabled while a call is in flight
handleGeminiAssistRequestWhileAssisting ==
  /\ EditorOpen
  /\ assistPrompt # ""
  /\ Cardinality(assistCalls) < MaxCalls
  /\ isAssisting' = TRUE
  /\ assistError' = "null"
  /\ assistCalls' = assistCalls \cup {[live |-> TRUE, existingBoxes |-> boxes]}
  /\ UNCHANGED <<colorVars, nextId, appVars, boxes, selectedBoxId, gestureVars,
                 assistPrompt, imageRenderSize, inputVars>>

\* the Ask Gemini button: handleGeminiAssistRequest up to its await; the call
\* carries the boxes of the render that issued it (onGeminiAssist(.., boxes))
handleGeminiAssistRequest ==
  /\ EditorOpen
  /\ ~isAssisting /\ assistPrompt # ""
  /\ Cardinality(assistCalls) < MaxCalls
  /\ isAssisting' = TRUE
  /\ assistError' = "null"
  /\ assistCalls' = assistCalls \cup {[live |-> TRUE, existingBoxes |-> boxes]}
  /\ UNCHANGED <<colorVars, nextId, appVars, boxes, selectedBoxId, gestureVars,
                 assistPrompt, imageRenderSize, inputVars>>

\* a merge that puts the suggestions in front of the boxes that were there
MergedInFront(prev, newSuggestedBoxes, cs) == WithColors(cs, newSuggestedBoxes) \o prev

\* the working set after the merge: [...prev, ...boxesWithColors]
Merged(prev, newSuggestedBoxes, cs) == prev \o WithColors(cs, newSuggestedBoxes)

\* a resolution that merges into the boxes the request was issued with
AssistResolvedOnSnapshot(call, payload) ==
  LET newSuggestedBoxes == validatedNewBoxes(payload, nextId)
      n == Len(newSuggestedBoxes)
  IN /\ call \in assistCalls
     /\ apiKeyPresent
     /\ nextId + n - 1 <= MaxId
     /\ nextId' = nextId + n
     /\ SetColors(AfterColoring(ColorState, newSuggestedBoxes))
     /\ assistCalls' = assistCalls \ {call}
     /\ IF call.live
        THEN /\ Len(boxes) + n <= MaxBoxes
             /\ boxes' = Merged(call.existingBoxes, newSuggestedBoxes, ColorState)
             /\ assistPrompt' = ""
             /\ isAssisting' = FALSE
        ELSE UNCHANGED <<boxes, assistPrompt, isAssisting>>
     /\ UNCHANGED <<appVars, selectedBoxId, gestureVars, assistError, imageRenderSize, inputVars>>

\* a resolution that merges into whatever editor is there, its own or a later one
AssistResolvedAfterClose(call, payload) ==
  LET newSuggestedBoxes == validatedNewBoxes(payload, nextId)
      n == Len(newSuggestedBoxes)
  IN /\ call \in assistCalls
     /\ apiKeyPresent
     /\ nextId + n - 1 <= MaxId
     /\ nextId' = nextId + n
     /\ SetColors(AfterColoring(ColorState, newSuggestedBoxes))
     /\ assistCalls' = assistCalls \ {call}
     /\ Len(boxes) + n <= MaxBoxes
     /\ boxes' = Merged(boxes, newSuggestedBoxes, ColorState)
     /\ assistPrompt' = ""
     /\ isAssisting' = FALSE
     /\ UNCHANGED <<appVars, selectedBoxId, gestureVars, assistError, imageRenderSize, inputVars>>

\* handleGeminiAssistRequest after its await, the call resolved
AssistResolved(call, payload) ==
  LET newSuggestedBoxes == validatedNewBoxes(payload, nextId)
      n == Len(newSuggestedBoxes)
  IN /\ call \in assistCalls
     /\ apiKeyPresent
     /\ nextId + n - 1 <= MaxId
     /\ nextId' = nextId + n
     /\ SetColors(AfterColoring(ColorState, newSuggestedBoxes))
     /\ assistCalls' = assistCalls \ {call}
     /\ IF call.live
        THEN /\ Len(boxes) + n <= MaxBoxes
             /\ boxes' = Merged(boxes, newSuggestedBoxes, ColorState)
             /\ assistPrompt' = ""
             /\ isAssisting' = FALSE
        ELSE UNCHANGED <<boxes, assistPrompt, isAssisting>>
     /\ UNCHANGED <<appVars, selectedBoxId, gestureVars, assistError, imageRenderSize, inputVars>>

\* a failure that also drops the selection
AssistRejectedDeselecting(call, message) ==
  /\ call \in assistCalls
  /\ message \in AssistFailures
  /\ assistCalls' = assistCalls \ {call}
  /\ selectedBoxId' = NoId
  /\ IF call.live
     THEN assistError' = message /\ isAssisting' = FALSE
     ELSE UNCHANGED <<assistError, isAssisting>>
  /\ UNCHANGED <<colorVars, nextId, appVars, boxes, gestureVars,
                 assistPrompt, imageRenderSize, inputVars>>

\* handleGeminiAssistRequest after its await, the call failed
AssistRejected(call, message) ==
  /\ call \in assistCalls
  /\ message \in AssistFailures
  /\ assistCalls' = assistCalls \ {call}
  /\ IF call.live
     THEN assistError' = message /\ isAssisting' = FALSE
     ELSE UNCHANGED <<assistError, isAssisting>>
  /\ UNCHANGED <<colorVars, nextId, appVars, boxes, selectedBoxId, gestureVars,
                 assistPrompt, imageRenderSize, inputVars>>

\* ------------------------------------------------- App
\* A ProcessedImageResult: the image's file name and pixel size are fixed by its id
ResultFor(imageId, bs) == [imageId |-> imageId, boxes |-> bs]

HasResult(results, imageId) == \E i \in DOMAIN results : results[i].imageId = imageId

\* results.find(r => r.imageId === imageId), or Null
FindResult(results, imageId) ==
  IF HasResult(results, imageId)
  THEN results[CHOOSE i \in DOMAIN results :
                 results[i].imageId = imageId /\ \A j \in 1..(i-1) : results[j].imageId # imageId]
  ELSE Null

EmptyResults(images) == [i \in DOMAIN images |-> ResultFor(images[i], <<>>)]

\* the editor's state when it mounts on editingState, and when there is no editor
MountEditor(annotations) ==
  /\ boxes' = WithColors(FreshColors, annotations)
  /\ SetColors(AfterColoring(FreshColors, annotations))
  /\ selectedBoxId' = NoId
  /\ interactionMode' = "select"
  /\ currentDrawingBox' = Null
  /\ resizeHandle' = "null"
  /\ assistPrompt' = ""
  /\ isAssisting' = FALSE
  /\ assistError' = "null"
  /\ imageRenderSize' = NoLayout
  /\ pointer' = Null

UnmountEditor ==
  /\ boxes' = <<>>
  /\ selectedBoxId' = NoId
  /\ interactionMode' = "select"
  /\ currentDrawingBox' = Null
  /\ resizeHandle' = "null"
  /\ assistPrompt' = ""
  /\ isAssisting' = FALSE
  /\ assistError' = "null"
  /\ imageRenderSize' = NoLayout
  /\ pointer' = Null
  /\ assistCalls' = {[c EXCEPT !.live = FALSE] : c \in assistCalls}

\* renderAppContent is on screen
AppContentShown == editingState = Null /\ annotationMode # "null"

\* the image grid is on screen
ImagesShown ==
  /\ AppContentShown /\ ~isLoading /\ Len(uploadedImages) > 0
  /\ (Len(processedResults) > 0 \/ annotationMode = "assistive")

\* the two buttons of renderModeSelection
selectMode(mode) ==
  /\ editingState = Null /\ annotationMode = "null"
  /\ mode \in {"automatic", "assistive"}
  /\ annotationMode' = mode
  /\ processedResults' = IF mode = "assistive" /\ Len(uploadedImages) > 0 /\ Len(processedResults) = 0
                         THEN EmptyResults(uploadedImages)
                         ELSE processedResults
  /\ UNCHANGED <<colorVars, nextId, uploadedImages, isLoading, appError, apiKeyPresent,
                 editingState, detection, uploads, nextImageId, editorVars, inputVars, assistCalls>>

\* handleClearAll, with the annotation mode it leaves
ClearAll(mode) ==
  /\ uploadedImages' = <<>>
  /\ processedResults' = <<>>
  /\ appError' = "null"
  /\ editingState' = Null
  /\ SetColors(FreshColors)
  /\ annotationMode' = mode
  /\ UnmountEditor
  /\ UNCHANGED <<nextId, isLoading, apiKeyPresent, detection, uploads, nextImageId, presses, colorCalls>>

\* the Clear All Uploads & Results button
handleClearAll ==
  /\ AppContentShown /\ Len(uploadedImages) > 0 /\ ~isLoading
  /\ ClearAll(annotationMode)

\* the Change Workflow Mode button of the header
changeWorkflowMode ==
  /\ annotationMode # "null"
  /\ ClearAll("null")

\* ImageUploader.handleFileProcessing up to its await, for n image files; the
\* onImagesUploaded it will call is the handleImagesUploaded of this render
handleFileProcessing(n) ==
  /\ AppContentShown /\ ~isLoading
  /\ n >= 1 /\ nextImageId + n - 1 <= MaxImages
  /\ uploads' = uploads \cup {[newImages |-> [k \in 1..n |-> nextImageId + k - 1],
                               annotationMode |-> annotationMode,
                               processedResults |-> processedResults]}
  /\ nextImageId' = nextImageId + n
  /\ UNCHANGED <<colorVars, nextId, annotationMode, uploadedImages, processedResults, isLoading,
                 appError, apiKeyPresent, editingState, detection, editorVars, inputVars, assistCalls>>

\* handleImagesUploaded as captured by upload u, once the files are decoded
handleImagesUploaded(u) ==
  LET uniqueImages == uploadedImages
                       \o SeqFilter(u.newImages, {i \in DOMAIN u.newImages :
                                                    u.newImages[i] \notin Range(uploadedImages)})
      isNew == {i \in DOMAIN uniqueImages : ~HasResult(u.processedResults, uniqueImages[i])}
  IN /\ u \in uploads
     /\ uploads' = uploads \ {u}
     /\ uploadedImages' = uniqueImages
     /\ appError' = "null"
     /\ SetColors(FreshColors)
     /\ processedResults' = IF u.annotationMode = "assistive"
                            THEN processedResults \o EmptyResults(SeqFilter(uniqueImages, isNew))
                            ELSE <<>>
     /\ UNCHANGED <<nextId, annotationMode, isLoading, apiKeyPresent, editingState, detection,
                    nextImageId, editorVars, inputVars, assistCalls>>

\* a file of upload u fails to decode: Promise.all rejects and nothing is uploaded
uploadRejected(u) ==
  /\ u \in uploads
  /\ uploads' = uploads \ {u}
  /\ UNCHANGED <<colorVars, nextId, annotationMode, uploadedImages, processedResults, isLoading,
                 appError, apiKeyPresent, editingState, detection, nextImageId, editorVars, inputVars, assistCalls>>

\* a click on an image of the grid
handleOpenEditor(image) ==
  LET existingResult == FindResult(processedResults, image)
      annotationsForImage == IF existingResult # Null THEN existingResult.boxes ELSE <<>>
  IN /\ ImagesShown
     /\ image \in Range(uploadedImages)
     /\ processedResults' = IF existingResult = Null /\ annotationMode = "assistive"
                            THEN Append(processedResults, ResultFor(image, <<>>))
                            ELSE processedResults
     /\ editingState' = [image |-> image, annotations |-> annotationsForImage]
     /\ MountEditor(annotationsForImage)
     /\ UNCHANGED <<nextId, annotationMode, uploadedImages, isLoading, appError, apiKeyPresent,
                    detection, uploads, nextImageId, presses, colorCalls, assistCalls>>

\* a close button that commits the working set before it closes
handleCloseEditorSaving ==
  /\ EditorOpen
  /\ processedResults' = [k \in DOMAIN processedResults |->
                            IF processedResults[k].imageId = editingState.image
                            THEN [processedResults[k] EXCEPT
                                    !.boxes = [i \in DOMAIN boxes |-> StripColor(boxes[i])]]
                            ELSE processedResults[k]]
  /\ editingState' = Null
  /\ UnmountEditor
  /\ UNCHANGED <<colorVars, nextId, annotationMode, uploadedImages, isLoading,
                 appError, apiKeyPresent, detection, uploads, nextImageId, presses, colorCalls>>

\* the editor's close button
handleCloseEditor ==
  /\ EditorOpen
  /\ editingState' = Null
  /\ UnmountEditor
  /\ UNCHANGED <<colorVars, nextId, annotationMode, uploadedImages, processedResults, isLoading,
                 appError, apiKeyPresent, detection, uploads, nextImageId, presses, colorCalls>>

\* an updater that adds the saved boxes to the list the entry holds
UpsertMerging(prevResults, imageId, updatedAnnotations) ==
  IF HasResult(prevResults, imageId)
  THEN LET resultIndex == CHOOSE i \in DOMAIN prevResults :
                            prevResults[i].imageId = imageId
                            /\ \A j \in 1..(i-1) : prevResults[j].imageId # imageId
       IN [prevResults EXCEPT ![resultIndex].boxes = @ \o updatedAnnotations]
  ELSE IF imageId \in Range(uploadedImages)
       THEN Append(prevResults, ResultFor(imageId, updatedAnnotations))
       ELSE prevResults

\* setProcessedResults' updater in handleSaveAnnotations
Upsert(prevResults, imageId, updatedAnnotations) ==
  IF HasResult(prevResults, imageId)
  THEN LET resultIndex == CHOOSE i \in DOMAIN prevResults :
                            prevResults[i].imageId = imageId
                            /\ \A j \in 1..(i-1) : prevResults[j].imageId # imageId
       IN [prevResults EXCEPT ![resultIndex].boxes = updatedAnnotations]
  ELSE IF imageId \in Range(uploadedImages)
       THEN Append(prevResults, ResultFor(imageId, updatedAnnotations))
       ELSE prevResults

\* the Save Changes & Close button: handleSave, handleSaveAnnotations, handleCloseEditor
handleSave ==
  /\ EditorOpen
  /\ processedResults' = Upsert(processedResults, editingState.image, [i \in DOMAIN boxes |-> StripColor(boxes[i])])
  /\ SetColors(FreshColors)
  /\ editingState' = Null
  /\ UnmountEditor
  /\ UNCHANGED <<nextId, annotationMode, uploadedImages, isLoading, appError, apiKeyPresent,
                 detection, uploads, nextImageId, presses, colorCalls>>

\* ------------------------------------------------- automatic detection
SeqsOf(S, n) == UNION {[1..k -> S] : k \in {n}}

\* the parsed responses to a request for n images: of the right length, too short, too long
DetectionResponses(answers, n) ==
  {NotAnArray}
  \cup {ArrayOf(s) : s \in SeqsOf(answers, n)}
  \cup {ArrayOf(s) : s \in SeqsOf({ArrayOf(<<RawCat>>)}, n - 1) \cup SeqsOf({ArrayOf(<<RawCat>>)}, n + 1)}

DetectionFailures == {"Invalid Gemini API Key", "Gemini API quota exceeded", "invalid JSON response"}
CountMismatch == "API returned an unexpected number of results"
NothingFound == "no objects matching your query were found"

\* uploadedImages.slice(batchStart, batchEnd) of batch i, counted from 0
ImageBatch(images, i) ==
  SubSeq(images, i * GEMINI_IMAGE_BATCH_SIZE + 1,
         Min(Len(images), (i + 1) * GEMINI_IMAGE_BATCH_SIZE))

\* Math.ceil(totalImages / GEMINI_IMAGE_BATCH_SIZE)
NumBatches(images) == (Len(images) + GEMINI_IMAGE_BATCH_SIZE - 1) \div GEMINI_IMAGE_BATCH_SIZE

\* the array or the count of the response is not what was asked for
Mismatched(response, images) == ~response.isArray \/ Len(response.entries) # Len(images)

RECURSIVE BatchResults(_, _, _)
\* resultsPerImageRaw.map(...): one result per image, its well-typed boxes with fresh ids
BatchResults(images, entries, id) ==
  IF images = <<>> THEN <<>>
  ELSE LET validatedBoxes == IF Head(entries).isArray
                             THEN ValidatedFrom(Head(entries).entries, id, "gemini")
                             ELSE <<>>
       IN <<ResultFor(Head(images), validatedBoxes)>>
          \o BatchResults(Tail(images), Tail(entries), id + Len(validatedBoxes))

RECURSIVE BoxCount(_)
BoxCount(results) == IF results = <<>> THEN 0 ELSE Len(Head(results).boxes) + BoxCount(Tail(results))

\* the Detect Objects button: handleSubmitForAnnotation up to its first await
handleSubmitForAnnotation ==
  /\ AppContentShown /\ annotationMode = "automatic"
  /\ Len(uploadedImages) > 0 /\ ~isLoading /\ apiKeyPresent
  /\ isLoading' = TRUE
  /\ appError' = "null"
  /\ processedResults' = <<>>
  /\ SetColors(FreshColors)
  /\ detection' = [images |-> uploadedImages, i |-> 0, allResults |-> <<>>,
                   storeBefore |-> processedResults]
  /\ UNCHANGED <<nextId, annotationMode, uploadedImages, apiKeyPresent, editingState, uploads,
                 nextImageId, editorVars, inputVars, assistCalls>>

\* the call for the current batch resolves: the loop body, and the end of the loop after the last batch
detectionResolved(response) ==
  /\ detection # Null
  /\ LET imageBatch == ImageBatch(detection.images, detection.i)
         batchResults == BatchResults(imageBatch, response.entries, nextId)
         allResults == detection.allResults \o batchResults
         last == detection.i + 1 >= NumBatches(detection.images)
     IN /\ ~Mismatched(response, imageBatch)
        /\ nextId + BoxCount(batchResults) - 1 <= MaxId
        /\ nextId' = nextId + BoxCount(batchResults)
        /\ processedResults' = allResults
        /\ IF last
           THEN /\ appError' = IF BoxCount(allResults) = 0 THEN NothingFound ELSE appError
                /\ isLoading' = FALSE
                /\ detection' = Null
           ELSE /\ detection' = [detection EXCEPT !.i = detection.i + 1, !.allResults = allResults]
                /\ UNCHANGED <<appError, isLoading>>
  /\ UNCHANGED <<colorVars, annotationMode, uploadedImages, apiKeyPresent, editingState, uploads,
                 nextImageId, editorVars, inputVars, assistCalls>>

\* a failure that throws the results of the earlier batches away
DetectionFailedDiscarding(message) ==
  /\ appError' = message
  /\ processedResults' = <<>>
  /\ isLoading' = FALSE
  /\ detection' = Null
  /\ UNCHANGED <<colorVars, nextId, annotationMode, uploadedImages, apiKeyPresent, editingState,
                 uploads, nextImageId, editorVars, inputVars, assistCalls>>

\* the call for the current batch throws: the catch and finally blocks
DetectionFailed(message) ==
  /\ appError' = message
  /\ processedResults' = detection.allResults
  /\ isLoading' = FALSE
  /\ detection' = Null
  /\ UNCHANGED <<colorVars, nextId, annotationMode, uploadedImages, apiKeyPresent, editingState,
                 uploads, nextImageId, editorVars, inputVars, assistCalls>>

\* the request fails, or its answer cannot be parsed
detectionRejected(message) ==
  /\ detection # Null
  /\ message \in DetectionFailures
  /\ DetectionFailed(message)

\* a mismatch that reports the error and records the batch's images as having no box
detectionMismatchedAsEmpty(response) ==
  /\ detection # Null
  /\ Mismatched(response, ImageBatch(detection.images, detection.i))
  /\ appError' = CountMismatch
  /\ processedResults' = detection.allResults
                          \o EmptyResults(ImageBatch(detection.images, detection.i))
  /\ isLoading' = FALSE
  /\ detection' = Null
  /\ UNCHANGED <<colorVars, nextId, annotationMode, uploadedImages, apiKeyPresent, editingState,
                 uploads, nextImageId, editorVars, inputVars, assistCalls>>

\* the answer is no array of one entry per image of the batch
detectionMismatched(response) ==
  /\ detection # Null
  /\ Mismatched(response, ImageBatch(detection.images, detection.i))
  /\ DetectionFailed(CountMismatch)

\* ------------------------------------------------- the system
Init ==
  /\ labelColorMap = <<>> /\ colorIndex = 0
  /\ nextId = 1 /\ nextImageId = 1
  /\ annotationMode = "null"
  /\ uploadedImages = <<>>
  /\ processedResults = <<>>
  /\ isLoading = FALSE
  /\ apiKeyPresent \in BOOLEAN
  /\ appError = IF apiKeyPresent THEN "null" ELSE "Critical: Gemini API Key is not configured"
  /\ editingState = Null
  /\ detection = Null
  /\ uploads = {}
  /\ boxes = <<>>
  /\ selectedBoxId = NoId
  /\ interactionMode = "select"
  /\ currentDrawingBox = Null
  /\ resizeHandle = "null"
  /\ assistPrompt = ""
  /\ isAssisting = FALSE
  /\ assistError = "null"
  /\ imageRenderSize = NoLayout
  /\ presses = 0
  /\ colorCalls = [resets |-> 0, calls |-> <<>>]
  /\ pointer = Null
  /\ assistCalls = {}

\* ------------------------------------------------- one editor session
\* What the store holds for the image when its editor opens: nothing, boxes
\* of a detection run, boxes saved by an earlier session.
StoredAnnotations ==
  {<<>>,
   <<[id |-> 1, source |-> "gemini"] @@ RawCat>>,
   <<[id |-> 1, source |-> "gemini"] @@ RawCat,
     [id |-> 2, label |-> "dog", x_min |-> 100, y_min |-> 100, width |-> 60, height |-> 60,
      source |-> "human-added"]>>}

\* the editor has just been opened on image 1, the only image uploaded
InitEditor ==
  /\ annotationMode = "automatic"
  /\ apiKeyPresent \in BOOLEAN
  /\ appError = "null"
  /\ uploadedImages = <<1>>
  /\ nextImageId = 2
  /\ \E annotations \in StoredAnnotations :
       /\ processedResults = <<ResultFor(1, annotations)>>
       /\ editingState = [image |-> 1, annotations |-> annotations]
       /\ boxes = WithColors(FreshColors, annotations)
       /\ labelColorMap = AfterColoring(FreshColors, annotations).map
       /\ colorIndex = AfterColoring(FreshColors, annotations).idx
       /\ nextId = Len(annotations) + 1
  /\ isLoading = FALSE
  /\ detection = Null
  /\ uploads = {}
  /\ selectedBoxId = NoId
  /\ interactionMode = "select"
  /\ currentDrawingBox = Null
  /\ resizeHandle = "null"
  /\ assistPrompt = ""
  /\ isAssisting = FALSE
  /\ assistError = "null"
  /\ imageRenderSize = NoLayout
  /\ presses = 0
  /\ colorCalls = [resets |-> 0, calls |-> <<>>]
  /\ pointer = Null
  /\ assistCalls = {}

\* the pointer gestures, the tools and the box panel of the editor
Gestures(points, labels) ==
  \/ \E c \in ContainerSizes : updateRenderSize(c)
  \/ \E p \in points : MouseDown(p)
  \/ \E p \in points : MouseMove(p)
  \/ \E l \in labels \cup {""} : MouseUp(l)
  \/ \E mode \in {"select", "draw"} : SelectTool(mode)
  \/ \E l \in labels : handleLabelChange(l)
  \/ handleDeleteSelected

\* the Gemini Assist panel of the editor and the calls it makes
Assist(payloads) ==
  \/ \E text \in {"", "find"} : setAssistPrompt(text)
  \/ handleGeminiAssistRequest
  \/ \E c \in assistCalls : \E payload \in payloads : AssistResolved(c, payload)
  \/ \E c \in assistCalls : \E m \in AssistFailures : AssistRejected(c, m)

NextEditor == Gestures(ClientPoints, Labels)

SpecEditor == InitEditor /\ [][NextEditor]_vars

\* ------------------------------------------------- presses on and around a box
\* the pointer at the top-left corner of the detected box, at the middle of its top
\* edge and at its centre
HandlePoints == {<<50, 70>>, <<80, 70>>, <<80, 85>>}

NextHandles == Gestures(HandlePoints, Labels)

SpecHandles == InitEditor /\ [][NextHandles]_vars

\* ------------------------------------------------- gestures at the image's edge
\* the pointer one pixel left of the image's right edge and at its bottom right corner
EdgePoints == {<<209, 140>>, <<210, 150>>}

NextEdge == Gestures(EdgePoints, Labels)

SpecEdge == InitEditor /\ [][NextEdge]_vars

\* ------------------------------------------------- an editor session with Gemini Assist
\* the pointer draws and drags between the image's top left and its middle
AssistPoints == {<<0, 20>>, <<110, 100>>}

NextAssist ==
  \/ Gestures(AssistPoints, Labels)
  \/ Assist(AssistPayloads)

SpecAssist == InitEditor /\ [][NextAssist]_vars

\* ------------------------------------------------- an editor session to its end
\* the session of SpecAssist, ended by the close button or by Save Changes & Close;
\* calls to Gemini still in flight are answered after the editor is gone
NextSession ==
  \/ Gestures(AssistPoints, Labels)
  \/ Assist(AssistPayloads)
  \/ handleCloseEditor
  \/ handleSave

SpecSession == InitEditor /\ [][NextSession]_vars

\* ------------------------------------------------- editor sessions one after another
\* the editor is closed or saved, with or without a call to Gemini in flight, and
\* opened again; the user asks Gemini and does not touch the boxes
NextReopen ==
  \/ Assist(AssistPayloads)
  \/ handleCloseEditor
  \/ handleSave
  \/ \E image \in 1..MaxImages : handleOpenEditor(image)

SpecReopen == InitEditor /\ [][NextReopen]_vars

\* ------------------------------------------------- the color allocator on its own
\* one label more than there are colors
ColorLabels == {"cat", "dog", "bird", "fish"}

\* a call getLabelColor(label)
callGetLabelColor(label) ==
  /\ Len(colorCalls.calls) < MaxColorCalls
  /\ colorCalls' = [colorCalls EXCEPT
                      !.calls = Append(@, [label |-> label, color |-> getLabelColor(ColorState, label)])]
  /\ SetColors(AfterGetLabelColor(ColorState, label))
  /\ UNCHANGED <<nextId, appVars, editorVars, presses, pointer, assistCalls>>

\* a call resetLabelColors()
callResetLabelColors ==
  /\ colorCalls.resets < MaxResets
  /\ colorCalls' = [resets |-> colorCalls.resets + 1, calls |-> <<>>]
  /\ SetColors(FreshColors)
  /\ UNCHANGED <<nextId, appVars, editorVars, presses, pointer, assistCalls>>

NextColors ==
  \/ \E label \in ColorLabels : callGetLabelColor(label)
  \/ callResetLabelColors

SpecColors == Init /\ [][NextColors]_vars

\* ------------------------------------------------- the application
AppPoints == {<<0, 20>>, <<110, 100>>}
AppAnswers == {ArrayOf(<<RawCat>>), ArrayOf(<<>>)}
AppLabels == {"dog"}

Next ==
  \/ \E mode \in {"automatic", "assistive"} : selectMode(mode)
  \/ handleClearAll
  \/ changeWorkflowMode
  \/ \E n \in 1..MaxImages : handleFileProcessing(n)
  \/ \E u \in uploads : handleImagesUploaded(u)
  \/ \E u \in uploads : uploadRejected(u)
  \/ handleSubmitForAnnotation
  \/ \E n \in 1..GEMINI_IMAGE_BATCH_SIZE : \E r \in DetectionResponses(AppAnswers, n) : detectionResolved(r)
  \/ \E n \in 1..GEMINI_IMAGE_BATCH_SIZE : \E r \in DetectionResponses(AppAnswers, n) : detectionMismatched(r)
  \/ \E m \in DetectionFailures : detectionRejected(m)
  \/ \E image \in 1..MaxImages : handleOpenEditor(image)
  \/ handleCloseEditor
  \/ handleSave
  \/ Gestures(AppPoints, AppLabels)

Spec == Init /\ [][Next]_vars

\* ------------------------------------------------- properties
AllPoints == ClientPoints \cup AssistPoints \cup AppPoints

InUnitSquare(b) ==
  /\ b.x_min >= 0 /\ b.y_min >= 0
  /\ b.x_min + b.width <= One /\ b.y_min + b.height <= One

ValidBox(b) == InUnitSquare(b) /\ b.width > 0 /\ b.height > 0

\* C1: a pointer-move in Move or Resize mode, made while the selected box is valid,
\* leaves the selected box with x_min >= 0, y_min >= 0, x_min + width <= 1 and
\* y_min + height <= 1, wherever the pointer is
C1_SelectedBoxStaysInside ==
  [][\A p \in AllPoints :
       (/\ MouseMove(p)
        /\ interactionMode \in {"move", "resize"}
        /\ selectedBoxDetails # Null
        /\ ValidBox(selectedBoxDetails))
       => InUnitSquare(FindBox(boxes', selectedBoxId))]_vars

\* C1: a box dragged towards the far corner has stopped at the right edge
C1_Witness ==
  /\ interactionMode = "move"
  /\ selectedBoxDetails # Null
  /\ currentDrawingBox # Null
  /\ selectedBoxDetails.source = "human-edited"
  /\ selectedBoxDetails.x_min # currentDrawingBox.boxInitialX
  /\ selectedBoxDetails.x_min + selectedBoxDetails.width = One

AllLabels == Labels \cup AppLabels \cup {""}

\* C2: a pointer-up in Draw mode that finds the pointer where it was pressed leaves
\* the box set as it was, whatever pointer-moves the press saw and whatever label
\* the user would give
C2_NoBoxWithoutDisplacement ==
  [][\A l \in AllLabels :
       (/\ MouseUp(l)
        /\ interactionMode = "draw"
        /\ pointer # Null
        /\ pointer.at = pointer.press)
       => boxes' = boxes]_vars

\* the rectangle spanned by the points P and C
Spanned(P, C) ==
  [x_min |-> Min(P.x, C.x), y_min |-> Min(P.y, C.y),
   width |-> Abs(C.x - P.x), height |-> Abs(C.y - P.y)]

\* C5: a pointer-move of a Draw gesture leaves the in-progress box equal to the
\* rectangle spanned by the point of the press and the point the pointer is at
C5_InProgressBoxSpansPressAndPointer ==
  [][\A p \in AllPoints :
       (/\ MouseMove(p)
        /\ interactionMode = "draw"
        /\ pointer # Null
        /\ currentDrawingBox # Null
        /\ getNormalizedCoords(p) # Null)
       => currentDrawingBox' = Spanned(pointer.press, getNormalizedCoords(p))]_vars

\* C6: a pointer-up in Draw mode on an in-progress box of non-zero width and height,
\* with a non-empty label, appends exactly one box at the end of the set: it has the
\* in-progress geometry, the label, an id no other box has, source human-added and
\* the allocator's color for the label; it becomes the selection and the boxes that
\* were there are unchanged
C6_DrawCommitAppendsOneBox ==
  [][\A l \in AllLabels :
       (/\ MouseUp(l)
        /\ interactionMode = "draw"
        /\ DrawnExtent(currentDrawingBox)
        /\ l # "")
       => /\ Len(boxes') = Len(boxes) + 1
          /\ SubSeq(boxes', 1, Len(boxes)) = boxes
          /\ LET new == boxes'[Len(boxes')]
             IN /\ new.x_min = currentDrawingBox.x_min /\ new.y_min = currentDrawingBox.y_min
                /\ new.width = currentDrawingBox.width /\ new.height = currentDrawingBox.height
                /\ new.label = l
                /\ new.source = "human-added"
                /\ new.color = getLabelColor(ColorState, l)
                /\ \A i \in DOMAIN boxes : boxes[i].id # new.id
                /\ selectedBoxId' = new.id]_vars

\* C6: a box drawn over the whole image has been added after a detected one and is
\* the selection
C6_Witness ==
  /\ Len(boxes) = 2
  /\ boxes[1].source = "gemini"
  /\ boxes[2].source = "human-added"
  /\ boxes[2].x_min = 0 /\ boxes[2].width = One
  /\ selectedBoxId = boxes[2].id
  /\ interactionMode = "draw"
  /\ currentDrawingBox = Null

\* a box of the working set or of the store whose source is human-edited keeps
\* that source for as long as it is there
HumanEditedIsKept ==
  /\ \A i \in DOMAIN boxes : \A j \in DOMAIN boxes' :
       boxes[i].id = boxes'[j].id /\ boxes[i].source = "human-edited"
       => boxes'[j].source = "human-edited"
  /\ \A r \in DOMAIN processedResults : \A q \in DOMAIN processedResults' :
       \A i \in DOMAIN processedResults[r].boxes : \A j \in DOMAIN processedResults'[q].boxes :
         /\ processedResults[r].boxes[i].id = processedResults'[q].boxes[j].id
         /\ processedResults[r].boxes[i].source = "human-edited"
         => processedResults'[q].boxes[j].source = "human-edited"

\* wherever the editor is in Move or Resize mode with a box selected, a pointer-move
\* over the image leaves that box with source human-edited, and so does a label edit
EditsMarkTheSelectedBox ==
  /\ \A p \in AllPoints :
       (/\ EditorOpen
        /\ interactionMode \in {"move", "resize"}
        /\ getNormalizedCoords(p) # Null
        /\ selectedBoxDetails # Null)
       => ENABLED (MouseMove(p) /\ FindBox(boxes', selectedBoxId).source = "human-edited")
  /\ \A l \in Labels :
       (EditorOpen /\ selectedBoxDetails # Null /\ l # selectedBoxDetails.label)
       => ENABLED (handleLabelChange(l) /\ FindBox(boxes', selectedBoxId).source = "human-edited")

\* C3: a box whose source has become human-edited never gets another source, and
\* every pointer-move in Move or Resize mode and every label edit sets the selected
\* box's source to human-edited
C3_HumanEditedIsSetAndKept == [][HumanEditedIsKept]_vars /\ []EditsMarkTheSelectedBox

\* every box of the working set and of the store
AllBoxes ==
  Range(boxes) \cup UNION {Range(processedResults[r].boxes) : r \in DOMAIN processedResults}

\* C4: every box of the editor's working set and of every entry of the result
\* store has 0 <= x_min <= x_min + width <= 1, 0 <= y_min <= y_min + height <= 1,
\* width > 0 and height > 0, whatever produced it
C4_EveryBoxIsValid == \A b \in AllBoxes : ValidBox(b)

\* the entries of a payload that carry a label and the four numbers
WellTypedEntries(payload) ==
  IF payload.isArray
  THEN SeqFilter(payload.entries,
                 {k \in DOMAIN payload.entries :
                    {"label", "x_min", "y_min", "width", "height"} \subseteq DOMAIN payload.entries[k]})
  ELSE <<>>

Geometry(b) == [f \in {"label", "x_min", "y_min", "width", "height"} |-> b[f]]

\* C7: when an assist call of the open session resolves with n validated boxes,
\* the working set becomes what it was followed by exactly those n boxes in the
\* order of the response, each with an id no other box has and source
\* gemini-assisted; the boxes that were there keep their place and every field
C7_AssistMergeAppends ==
  [][\A c \in assistCalls : \A payload \in AssistPayloads :
       (AssistResolved(c, payload) /\ c.live)
       => LET validated == WellTypedEntries(payload)
              n == Len(validated)
          IN /\ Len(boxes') = Len(boxes) + n
             /\ SubSeq(boxes', 1, Len(boxes)) = boxes
             /\ \A k \in 1..n :
                  LET new == boxes'[Len(boxes) + k]
                  IN /\ Geometry(new) = Geometry(validated[k])
                     /\ new.source = "gemini-assisted"
                     /\ \A j \in DOMAIN boxes' : j # Len(boxes) + k => boxes'[j].id # new.id]_vars

\* C7: two suggestions, the first an echo of a box that carried id 1 and source
\* human-edited, have been merged into an empty working set
C7_Witness ==
  /\ Len(boxes) = 2
  /\ boxes[1].source = "gemini-assisted" /\ boxes[2].source = "gemini-assisted"
  /\ boxes[1].x_min = RawEcho.x_min
  /\ boxes[1].id # boxes[2].id
  /\ ~isAssisting

\* C8: an assist request leaves the working set, the selection and the store as
\* they are when it is issued, and when it fails in the open session they are
\* still as they are and the failure is recorded as the assist error
C8_AssistFailureChangesNothing ==
  [][/\ handleGeminiAssistRequest
        => UNCHANGED <<boxes, selectedBoxId, processedResults>>
     /\ \A c \in assistCalls : \A m \in AssistFailures :
          (AssistRejected(c, m) /\ c.live)
          => /\ UNCHANGED <<boxes, selectedBoxId, processedResults>>
             /\ assistError' = m /\ m # "null"]_vars

\* C8: a failed request is on record while a box is selected
C8_Witness ==
  /\ assistError \in {"Gemini API quota exceeded", "invalid JSON response",
                      "Gemini API client is not initialized"}
  /\ ~isAssisting
  /\ assistCalls = {}
  /\ selectedBoxDetails # Null

\* the payload is no array, or an entry of it lacks a label or one of the numbers
SchemaMismatched(payload) ==
  \/ ~payload.isArray
  \/ \E k \in DOMAIN payload.entries :
       ~({"label", "x_min", "y_min", "width", "height"} \subseteq DOMAIN payload.entries[k])

\* C9 as stated: when the assist payload is schema-mismatched the operation
\* reports an error and merges no box of that payload into the working set
C9_MismatchIsAnErrorAndMergesNothing ==
  [][\A c \in assistCalls : \A payload \in AssistPayloads :
       (AssistResolved(c, payload) /\ c.live /\ SchemaMismatched(payload))
       => boxes' = boxes /\ assistError' # "null"]_vars

\* C9: when the assist payload is schema-mismatched no error is reported; a payload
\* that is no array merges nothing, and of an array the entries lacking a field are
\* left out while the well-typed entries are merged, in the order of the payload
C9_MismatchedEntriesAreSkipped ==
  [][\A c \in assistCalls : \A payload \in AssistPayloads :
       (AssistResolved(c, payload) /\ c.live /\ SchemaMismatched(payload))
       => LET kept == WellTypedEntries(payload)
          IN /\ assistError' = "null"
             /\ Len(boxes') = Len(boxes) + Len(kept)
             /\ SubSeq(boxes', 1, Len(boxes)) = boxes
             /\ \A k \in DOMAIN kept : Geometry(boxes'[Len(boxes) + k]) = Geometry(kept[k])]_vars

\* C9: of a payload whose first entry lacks its height the second entry alone has
\* been merged into an empty working set, and no error is on record
C9_Witness ==
  /\ nextId = 2
  /\ Len(boxes) = 1
  /\ boxes[1].source = "gemini-assisted"
  /\ Geometry(boxes[1]) = RawCat
  /\ assistError = "null"
  /\ ~isAssisting

\* C10: when a detection run fails, every annotation set the store held when the
\* run was started is still in the store, unchanged; when an assist call fails the
\* store is as it was
C10_FailedCallKeepsTheStore ==
  [][/\ ((\E m \in DetectionFailures : detectionRejected(m))
          \/ (\E n \in 1..GEMINI_IMAGE_BATCH_SIZE :
                \E r \in DetectionResponses(AppAnswers, n) : detectionMismatched(r)))
        => \A k \in DOMAIN detection.storeBefore :
             \E j \in DOMAIN processedResults' : processedResults'[j] = detection.storeBefore[k]
     /\ \A c \in assistCalls : \A m \in AssistFailures :
          AssistRejected(c, m) => processedResults' = processedResults]_vars

\* the image ids of the entries of a store, in order
ImageIds(results) == [k \in DOMAIN results |-> results[k].imageId]

\* the images of the first count batches of a run
ImagesOfBatches(images, count) ==
  SubSeq(images, 1, Min(Len(images), count * GEMINI_IMAGE_BATCH_SIZE))

\* C11: the batches of a detection run are answered one after the other in upload
\* order, each answer adding the batch's results after those already there; when
\* batch k fails the store holds exactly the results of batches 1..k-1 of the run
\* and the error is reported
C11_FailedBatchKeepsEarlierBatches ==
  [][/\ \A n \in 1..GEMINI_IMAGE_BATCH_SIZE : \A r \in DetectionResponses(AppAnswers, n) :
          detectionResolved(r)
          => /\ ImageIds(processedResults') = ImagesOfBatches(detection.images, detection.i + 1)
             /\ SubSeq(processedResults', 1, Len(detection.allResults)) = detection.allResults
     /\ \A m \in DetectionFailures \cup {CountMismatch} :
          (detection # Null /\ DetectionFailed(m))
          => /\ ImageIds(processedResults') = ImagesOfBatches(detection.images, detection.i)
             /\ processedResults' = detection.allResults
             /\ appError' = m]_vars

\* C11: the second batch of a run over two images has failed and the first image's
\* result is in the store
C11_Witness ==
  /\ detection = Null /\ ~isLoading
  /\ appError \in DetectionFailures \cup {CountMismatch}
  /\ Len(uploadedImages) = 2
  /\ Len(processedResults) = 1
  /\ processedResults[1].imageId = uploadedImages[1]

\* the response is no array of one entry per image
WrongCount(response, images) == ~response.isArray \/ Len(response.entries) # Len(images)

\* C12: when the response for a batch of n images is no array of exactly n
\* entries, the call fails with the count-mismatch error and the store has no entry
\* for an image of that batch
C12_CountMismatchAddsNothing ==
  [][\A n \in 1..GEMINI_IMAGE_BATCH_SIZE : \A r \in DetectionResponses(AppAnswers, n) :
       (/\ detection # Null
        /\ WrongCount(r, ImageBatch(detection.images, detection.i))
        /\ (detectionResolved(r) \/ detectionMismatched(r)))
       => /\ appError' = CountMismatch
          /\ detection' = Null
          /\ \A k \in DOMAIN ImageBatch(detection.images, detection.i) :
               ~HasResult(processedResults', ImageBatch(detection.images, detection.i)[k])]_vars

\* C12: a run has failed on its first batch with the count-mismatch error and the
\* store is empty
C12_Witness ==
  /\ detection = Null /\ ~isLoading
  /\ appError = CountMismatch
  /\ Len(uploadedImages) > 0
  /\ processedResults = <<>>

\* saved is the working set ws in the same order, each box without its color
SavedFrom(saved, ws) ==
  /\ Len(saved) = Len(ws)
  /\ \A i \in DOMAIN ws :
       /\ DOMAIN saved[i] = DOMAIN ws[i] \ {"color"}
       /\ \A f \in DOMAIN saved[i] : saved[i][f] = ws[i][f]

\* the entries of a store for the images other than imageId, in order
EntriesOfOthers(results, imageId) ==
  SeqFilter(results, {k \in DOMAIN results : results[k].imageId # imageId})

\* C13: a save from the editor makes the store's box list of the edited image the
\* working set (same boxes, same order, no color), creates the entry when a known
\* image had none, and leaves the entries of the other images as they were
C13_SaveReplacesTheImagesList ==
  [][handleSave
     => LET imageId == editingState.image
        IN /\ (HasResult(processedResults, imageId) \/ imageId \in Range(uploadedImages))
              => /\ HasResult(processedResults', imageId)
                 /\ SavedFrom(FindResult(processedResults', imageId).boxes, boxes)
           /\ EntriesOfOthers(processedResults', imageId) = EntriesOfOthers(processedResults, imageId)
           /\ Len(processedResults') =
                Len(processedResults) + (IF HasResult(processedResults, imageId)
                                            \/ imageId \notin Range(uploadedImages) THEN 0 ELSE 1)]_vars

\* C13: a box drawn in the editor has been saved over a detected list, next to the
\* entry of another image
C13_Witness ==
  /\ editingState = Null
  /\ Len(processedResults) = 2
  /\ processedResults[1].imageId # processedResults[2].imageId
  /\ \E k \in DOMAIN processedResults : \E i \in DOMAIN processedResults[k].boxes :
       /\ processedResults[k].boxes[i].source = "human-added"
       /\ "color" \notin DOMAIN processedResults[k].boxes[i]

\* the box list the store gives for an image: the one of the entry that
\* processedResults.find returns, none when there is no entry
StoredBoxes(results, imageId) ==
  IF HasResult(results, imageId) THEN FindResult(results, imageId).boxes ELSE <<>>

\* C14: every step of an open editor session other than Save Changes & Close (a draw,
\* move, resize, label edit, delete, an assist request or its answer, and the close
\* button itself) leaves the store as it was, and the store's box list of the edited
\* image is the list the editor was opened with
C14_CloseWithoutSavingKeepsTheStore ==
  [][(EditorOpen /\ ~handleSave)
     => /\ processedResults' = processedResults
        /\ StoredBoxes(processedResults', editingState.image) = editingState.annotations]_vars

\* C14: the editor was closed after boxes had been added to the working set, and the
\* store holds a list that is shorter than the ids given out
C14_Witness ==
  /\ editingState = Null
  /\ presses > 0
  /\ nextId > Len(processedResults[1].boxes) + 1
  /\ processedResults[1].boxes \in StoredAnnotations

\* a step of an automatic detection run, taken while no editor is open
DetectionSeeds ==
  /\ ~EditorOpen
  /\ \/ handleSubmitForAnnotation
     \/ detection # Null

\* C15: the box list the store holds for an image that stays uploaded changes, or its
\* entry disappears, only in a save of the editor open on that image or in a step of
\* a detection run made while no editor is open; an upload that completes does neither
C15_StoreChangesOnlyBySaveOrSeeding ==
  [][\A img \in Range(uploadedImages) \cap Range(uploadedImages') :
       (/\ HasResult(processedResults, img)
        /\ \/ ~HasResult(processedResults', img)
           \/ StoredBoxes(processedResults', img) # StoredBoxes(processedResults, img))
       => \/ handleSave /\ editingState.image = img
          \/ DetectionSeeds]_vars

RECURSIVE ColorsFrom(_, _)
\* the colors that calls of getLabelColor for the labels of ls, in turn, return when
\* the allocator starts as cs
ColorsFrom(cs, ls) ==
  IF ls = <<>> THEN <<>>
  ELSE <<getLabelColor(cs, Head(ls))>> \o ColorsFrom(AfterGetLabelColor(cs, Head(ls)), Tail(ls))

\* C16: between two resets, calls of getLabelColor with the same label return the same
\* color whatever labels were asked for in between, and the colors returned since the
\* last resetLabelColors are those a newly loaded allocator returns for the same labels
C16_ColorsAreStableAndReproducible ==
  LET calls == colorCalls.calls
      labels == [k \in DOMAIN calls |-> calls[k].label]
  IN /\ \A i, j \in DOMAIN calls : calls[i].label = calls[j].label => calls[i].color = calls[j].color
     /\ [k \in DOMAIN calls |-> calls[k].color] = ColorsFrom(InitialColors, labels)

\* C16: after a reset, four different labels were asked for (the fourth got the
\* color of the first, there being three colors) and then the first one again
C16_Witness ==
  LET calls == colorCalls.calls
  IN /\ colorCalls.resets = 1
     /\ Len(calls) = 5
     /\ Cardinality({calls[k].label : k \in 1..4}) = 4
     /\ calls[5].label = calls[1].label
     /\ calls[4].color = calls[1].color

\* what toDisplayCoords(b) returns: the rectangle in svg pixels times One, or Null for {}
DisplayCoords(b) == IF Displayed(b) THEN toDisplayCoords(b) ELSE Null

\* the display transform of the image as it is laid out
DisplayTransform(b) ==
  [x |-> b.x_min * imageRenderSize.width + imageRenderSize.offsetX * One,
   y |-> b.y_min * imageRenderSize.height + imageRenderSize.offsetY * One,
   width |-> b.width * imageRenderSize.width,
   height |-> b.height * imageRenderSize.height]

\* C17: once the image is laid out in a container of non-zero area, toDisplayCoords
\* maps every box of the working set, those at the left or top edge included, to the
\* rectangle of the display transform; it returns {} for none of them
C17_EveryBoxIsMappedToItsRectangle ==
  (imageRenderSize.width # 0 /\ imageRenderSize.height # 0)
  => \A i \in DOMAIN boxes : DisplayCoords(boxes[i]) = DisplayTransform(boxes[i])

\* c is the normalized coordinate of the svg position q (in pixels times One) on an axis
\* where the image begins at pixel off and is size pixels long: the inverse of the
\* display transform, to the precision of normalized coordinates, clamped to [0, 1]
ClampedInverse(c, q, off, size) ==
  IF q < off * One THEN c = 0
  ELSE IF q > (off + size) * One THEN c = One
  ELSE c * size + off * One <= q /\ q < (c + 1) * size + off * One

\* C18: a press or a move of the pointer at any position converts it, when the image
\* is laid out, to a point of the unit square that is the clamped inverse of the
\* display transform; when the rendered width is 0 the conversion gives no point and
\* the event leaves the editor and the application as they were
C18_PointerPositionIsNormalized ==
  [][\A p \in AllPoints :
       \/ IF imageRenderSize.width = 0
          THEN /\ getNormalizedCoords(p) = Null
               /\ UNCHANGED <<colorVars, nextId, appVars, editorVars, assistCalls>>
          ELSE LET c == getNormalizedCoords(p)
                   q == PointerPx(p)
               IN /\ c # Null
                  /\ 0 <= c.x /\ c.x <= One /\ 0 <= c.y /\ c.y <= One
                  /\ ClampedInverse(c.x, q.x, imageRenderSize.offsetX, imageRenderSize.width)
                  /\ ClampedInverse(c.y, q.y, imageRenderSize.offsetY, imageRenderSize.height)
       \/ ~(MouseDown(p) \/ MouseMove(p))]_vars

\* C18: a drawing was begun left of and above the image and the pointer is now right
\* of and below it: both positions were clamped to corners of the unit square
C18_Witness ==
  /\ pointer # Null
  /\ pointer.press = [x |-> 0, y |-> 0]
  /\ pointer.at = [x |-> One, y |-> One]

\* the box between the normalized points of the top left and the bottom right corner
\* of what toDisplayCoords(b) returns; Null when it returns {}, whose corners have no
\* coordinates
RoundTrip(b) ==
  LET d == DisplayCoords(b)
  IN IF d = Null THEN Null
     ELSE LET tl == getNormalizedCoordsAt([x |-> d.x, y |-> d.y])
              br == getNormalizedCoordsAt([x |-> d.x + d.width, y |-> d.y + d.height])
          IN [x_min |-> tl.x, y_min |-> tl.y, width |-> br.x - tl.x, height |-> br.y - tl.y]

\* C19: once the image is laid out, every box of the working set that lies inside
\* the unit square is what getNormalizedCoords gives back for its displayed rectangle
C19_DisplayThenNormalizeIsIdentity ==
  (imageRenderSize.width # 0 /\ imageRenderSize.height # 0)
  => \A i \in DOMAIN boxes :
       InUnitSquare(boxes[i])
       => RoundTrip(boxes[i]) = [x_min |-> boxes[i].x_min, y_min |-> boxes[i].y_min,
                                 width |-> boxes[i].width, height |-> boxes[i].height]

DistinctIds(bs) == \A i, j \in DOMAIN bs : i # j => bs[i].id # bs[j].id

IdsOf(bs) == [i \in DOMAIN bs |-> bs[i].id]

\* C20: the ids of the boxes of the working set are pairwise distinct, and so are
\* those of every entry of the store; a pointer-move in Move or Resize mode and a
\* label edit leave the ids of the working set's boxes, their number and their
\* order as they were
C20_IdsAreDistinctAndStable ==
  /\ [](/\ DistinctIds(boxes)
        /\ \A k \in DOMAIN processedResults : DistinctIds(processedResults[k].boxes))
  /\ [][\/ IdsOf(boxes') = IdsOf(boxes)
        \/ /\ \A p \in AllPoints : ~(MouseMove(p) /\ interactionMode \in {"move", "resize"})
           /\ \A l \in AllLabels : ~handleLabelChange(l)]_vars

\* C20: the working set holds two boxes, the second of them moved or relabelled
C20_Witness ==
  /\ Len(boxes) = 2
  /\ boxes[2].source = "human-edited"
  /\ boxes[1].id # boxes[2].id

\* C21: the mode leaves Draw only in a step in which the user selects a tool; no
\* pointer-down, pointer-move or pointer-up, whether it commits a box or lands on a
\* resize handle of the selected box, takes the editor out of Draw
C21_DrawToolStaysActive ==
  [][(interactionMode = "draw" /\ interactionMode' # "draw")
     => \E mode \in {"select", "draw"} : SelectTool(mode)]_vars

\* the indices of the boxes of bs whose rectangle, border included, holds the point c
BoxesAt(bs, c) ==
  {i \in DOMAIN bs : /\ bs[i].x_min <= c.x /\ c.x <= bs[i].x_min + bs[i].width
                     /\ bs[i].y_min <= c.y /\ c.y <= bs[i].y_min + bs[i].height}

\* the press at p is taken as a press on a resize handle of the selected box: on one
\* of its handle circles, or within the handle size of its bottom-right corner
OnResizeHandle(p) ==
  \/ HandleUnder(p) # 0
  \/ selectedBoxDetails # Null /\ NearSE(getNormalizedCoords(p), selectedBoxDetails)

\* C22: in Select mode a pointer-down at a point of some box, not on a resize handle,
\* selects the box of highest index among those holding the point, enters Move, records
\* the point and that box's x_min, y_min as anchors, and leaves the box set as it was
C22_PressSelectsTopmostBox ==
  [][\A p \in AllPoints :
       (/\ interactionMode = "select"
        /\ getNormalizedCoords(p) # Null
        /\ BoxesAt(boxes, getNormalizedCoords(p)) # {}
        /\ ~OnResizeHandle(p)
        /\ MouseDown(p))
       => LET c == getNormalizedCoords(p)
              at == BoxesAt(boxes, c)
              top == CHOOSE i \in at : \A j \in at : j <= i
          IN /\ selectedBoxId' = boxes[top].id
             /\ interactionMode' = "move"
             /\ currentDrawingBox' = [startX |-> c.x, startY |-> c.y,
                                      boxInitialX |-> boxes[top].x_min,
                                      boxInitialY |-> boxes[top].y_min]
             /\ boxes' = boxes]_vars

\* C22: a press on the corner two boxes share has selected the second of them
C22_Witness ==
  /\ interactionMode = "move"
  /\ Len(boxes) = 2
  /\ selectedBoxId = boxes[2].id
  /\ currentDrawingBox = [startX |-> 100, startY |-> 100, boxInitialX |-> 100, boxInitialY |-> 100]
  /\ 1 \in BoxesAt(boxes, [x |-> 100, y |-> 100])

\* v limited to the interval from lo to hi
ClampTo(v, lo, hi) == IF v < lo THEN lo ELSE IF v > hi THEN hi ELSE v

\* C23: a pointer-move of a Move gesture puts the selected box's origin at the anchored
\* origin plus the pointer's displacement from the press point, x_min limited to
\* [0, 1 - width] and y_min to [0, 1 - height], whatever moves came before; the box's
\* width, height, label and id and all other boxes stay as they were
C23_MoveFollowsTheAnchors ==
  [][\A p \in AllPoints :
       (/\ interactionMode = "move"
        /\ selectedBoxDetails # Null
        /\ currentDrawingBox # Null
        /\ Has(currentDrawingBox, "boxInitialX")
        /\ getNormalizedCoords(p) # Null
        /\ MouseMove(p))
       => LET c == getNormalizedCoords(p)
              cdb == currentDrawingBox
              b == selectedBoxDetails
              moved == FindBox(boxes', selectedBoxId)
          IN /\ moved.x_min = ClampTo(cdb.boxInitialX + (c.x - cdb.startX), 0, One - b.width)
             /\ moved.y_min = ClampTo(cdb.boxInitialY + (c.y - cdb.startY), 0, One - b.height)
             /\ moved.width = b.width /\ moved.height = b.height
             /\ moved.label = b.label /\ moved.id = b.id
             /\ currentDrawingBox' = currentDrawingBox
             /\ Len(boxes') = Len(boxes)
             /\ \A i \in DOMAIN boxes : boxes[i].id # selectedBoxId => boxes'[i] = boxes[i]]_vars

\* C23: a box is being dragged and stands away from where it was pressed, inside the image
C23_Witness ==
  /\ interactionMode = "move"
  /\ selectedBoxDetails # Null
  /\ currentDrawingBox # Null
  /\ Has(currentDrawingBox, "boxInitialX")
  /\ selectedBoxDetails.x_min # currentDrawingBox.boxInitialX
  /\ selectedBoxDetails.x_min > 0
  /\ selectedBoxDetails.x_min + selectedBoxDetails.width < One

\* C24: a pointer-up, or the pointer leaving the svg, in Move or Resize mode puts the
\* editor in Select mode with the selection it had, clears the gesture's anchors and
\* the resize handle, and leaves the box set as it was
C24_PointerUpEndsMoveAndResize ==
  [][\A l \in AllLabels :
       (interactionMode \in {"move", "resize"} /\ MouseUp(l))
       => /\ interactionMode' = "select"
          /\ selectedBoxId' = selectedBoxId
          /\ currentDrawingBox' = Null
          /\ resizeHandle' = "null"
          /\ boxes' = boxes]_vars

\* C24: a box was dragged and released: it is still selected, in Select mode, and no
\* anchors are left
C24_Witness ==
  /\ interactionMode = "select"
  /\ currentDrawingBox = Null
  /\ resizeHandle = "null"
  /\ selectedBoxDetails # Null
  /\ selectedBoxDetails.source = "human-edited"
  /\ selectedBoxDetails.x_min + selectedBoxDetails.width = One

\* the extent a resize by the bottom-right handle gives a box that begins at min along
\* an axis when the pointer is at c: at least MinExtent, and not beyond the image's edge
ExtentSE(min, c) ==
  LET e == IF c - min > MinExtent THEN c - min ELSE MinExtent
  IN IF min + e > One THEN One - min ELSE e

\* the move of the pointer to p resizes the selected box by its bottom-right handle
ResizedSE(p) ==
  LET c == getNormalizedCoords(p)
      b == selectedBoxDetails
  IN MouseMove(p)
     /\ FindBox(boxes', selectedBoxId).x_min = b.x_min
     /\ FindBox(boxes', selectedBoxId).y_min = b.y_min
     /\ FindBox(boxes', selectedBoxId).width = ExtentSE(b.x_min, c.x)
     /\ FindBox(boxes', selectedBoxId).height = ExtentSE(b.y_min, c.y)

\* C25: wherever the editor is in Resize mode with the se handle and a box selected,
\* a pointer-move to the normalized point (x, y) leaves the box's x_min and y_min as
\* they were and makes its width max(minExtent, x - x_min) and its height
\* max(minExtent, y - y_min), limited so that the box ends inside the image
C25_ResizeBySouthEastHandle ==
  \A p \in AllPoints :
    (/\ EditorOpen
     /\ interactionMode = "resize"
     /\ resizeHandle = "se"
     /\ selectedBoxDetails # Null
     /\ getNormalizedCoords(p) # Null)
    => ENABLED ResizedSE(p)

\* the move of the pointer to p resizes the selected box by its top-left handle: the
\* bottom-right corner stays, and x_min and y_min are the pointer's coordinates where
\* these leave the box at least MinExtent wide and high
ResizedNW(p) ==
  LET c == getNormalizedCoords(p)
      b == selectedBoxDetails
  IN MouseMove(p)
     /\ FindBox(boxes', selectedBoxId).x_min + FindBox(boxes', selectedBoxId).width = b.x_min + b.width
     /\ FindBox(boxes', selectedBoxId).y_min + FindBox(boxes', selectedBoxId).height = b.y_min + b.height
     /\ (c.x <= b.x_min + b.width - MinExtent => FindBox(boxes', selectedBoxId).x_min = c.x)
     /\ (c.y <= b.y_min + b.height - MinExtent => FindBox(boxes', selectedBoxId).y_min = c.y)

\* C26: wherever the editor is in Resize mode with the nw handle and a box selected,
\* a pointer-move leaves the box's bottom-right corner where it was and puts x_min
\* and y_min at the pointer, as far as the minimum extent allows
C26_ResizeByNorthWestHandle ==
  \A p \in AllPoints :
    (/\ EditorOpen
     /\ interactionMode = "resize"
     /\ resizeHandle = "nw"
     /\ selectedBoxDetails # Null
     /\ getNormalizedCoords(p) # Null)
    => ENABLED ResizedNW(p)

\* the eight handle positions of the box b on the displayed image, in svg pixels times One
EightHandles(b) ==
  LET d == DisplayTransform(b)
      l == d.x
      r == d.x + d.width
      t == d.y
      u == d.y + d.height
      cx == d.x + d.width \div 2
      cy == d.y + d.height \div 2
  IN [nw |-> [cx |-> l, cy |-> t], n |-> [cx |-> cx, cy |-> t], ne |-> [cx |-> r, cy |-> t],
      w |-> [cx |-> l, cy |-> cy], e |-> [cx |-> r, cy |-> cy],
      sw |-> [cx |-> l, cy |-> u], s |-> [cx |-> cx, cy |-> u], se |-> [cx |-> r, cy |-> u]]

\* the handles of the selected box that the pointer at p is within the handle radius of
HandlesAt(p) ==
  {h \in DOMAIN EightHandles(selectedBoxDetails) : OnCircle(p, EightHandles(selectedBoxDetails)[h])}

\* C27: in Select mode, a pointer-down within the handle radius of one of the eight
\* handle positions of the selected box enters Resize with such a handle and leaves
\* the selection as it was, even where the point also lies inside a box
C27_PressOnAnyHandleResizes ==
  [][\A p \in HandlePoints :
       (/\ interactionMode = "select"
        /\ selectedBoxDetails # Null
        /\ imageRenderSize.width # 0
        /\ HandlesAt(p) # {}
        /\ MouseDown(p))
       => /\ interactionMode' = "resize"
          /\ resizeHandle' \in HandlesAt(p)
          /\ selectedBoxId' = selectedBoxId]_vars

\* C28: a pointer-move in Resize mode, made while the selected box is valid, leaves
\* the selected box at least minExtent wide and at least minExtent high, wherever
\* the pointer is and wherever the box lies in the unit square
C28_ResizeKeepsTheMinimumExtent ==
  [][\A p \in AllPoints \cup EdgePoints :
       (/\ interactionMode = "resize"
        /\ selectedBoxDetails # Null
        /\ ValidBox(selectedBoxDetails)
        /\ MouseMove(p))
       => /\ FindBox(boxes', selectedBoxId).width >= MinExtent
          /\ FindBox(boxes', selectedBoxId).height >= MinExtent]_vars

\* the sequence bs without its k-th element
WithoutIndex(bs, k) == [i \in 1..(Len(bs) - 1) |-> IF i < k THEN bs[i] ELSE bs[i + 1]]

\* C29: Delete Selected Box takes exactly the selected box out of the working set,
\* leaves the other boxes as they are and in their order, and leaves no box selected;
\* while no box is selected it does nothing
C29_DeleteRemovesTheSelection ==
  /\ [][handleDeleteSelected
        => /\ \E k \in DOMAIN boxes : boxes[k].id = selectedBoxId /\ boxes' = WithoutIndex(boxes, k)
           /\ selectedBoxId' = NoId]_vars
  /\ [](selectedBoxId = NoId => ~ENABLED handleDeleteSelected)

\* C29: the first of two boxes was deleted: the second is left, and nothing is selected
C29_Witness ==
  /\ Len(boxes) = 1
  /\ boxes[1].id = 2
  /\ selectedBoxId = NoId

\* the color the allocator stands to give the label l: the one it gave before, or
\* the next of the palette
AllocatorColor(l) ==
  IF l \in DOMAIN labelColorMap THEN labelColorMap[l]
  ELSE BOUNDING_BOX_COLORS[(colorIndex % Len(BOUNDING_BOX_COLORS)) + 1]

\* C30: a label edit gives the selected box the new label, the allocator's color for
\* that label and the source human-edited, and leaves its id, its geometry and all
\* other boxes as they were; while no box is selected a label edit does nothing
C30_LabelEditRelabelsTheSelection ==
  /\ [][\A l \in AllLabels :
          handleLabelChange(l)
          => \E k \in DOMAIN boxes :
               /\ boxes[k].id = selectedBoxId
               /\ Len(boxes') = Len(boxes)
               /\ boxes'[k] = [boxes[k] EXCEPT !.label = l, !.color = AllocatorColor(l),
                                               !.source = "human-edited"]
               /\ \A i \in DOMAIN boxes : i # k => boxes'[i] = boxes[i]
               /\ selectedBoxId' = selectedBoxId]_vars
  /\ [](selectedBoxId = NoId => \A l \in AllLabels : ~ENABLED handleLabelChange(l))

\* C30: the first of two boxes with the same label was given another label and with
\* it another color; the second box has the label and the color it had
C30_Witness ==
  /\ Len(boxes) = 2
  /\ selectedBoxId = boxes[1].id
  /\ boxes[1].source = "human-edited"
  /\ boxes[1].label # boxes[2].label
  /\ boxes[1].color # "red"
  /\ boxes[2].color = "red"

\* ------------------------------------------------------------------ C31
\* the calls the open editor session issued that have neither resolved nor failed
CallsOfTheSession == {c \in assistCalls : c.live}

\* C31: within one editor session at most one assist call is in flight: while a
\* call issued by the open session has neither resolved nor failed the editor is
\* assisting and no assist request can be started, and the editor is assisting
\* only while such a call is in flight
C31_OneCallPerSession ==
  /\ CallsOfTheSession # {} => isAssisting /\ ~ENABLED handleGeminiAssistRequest
  /\ isAssisting => CallsOfTheSession # {}

\* a call of the open session is in flight and the prompt is not empty
C31_Witness ==
  /\ EditorOpen
  /\ CallsOfTheSession # {}
  /\ assistPrompt # ""
  /\ Cardinality(assistCalls) < MaxCalls

\* C31 as stated: at most one assist call is in flight at any time
C31_AtMostOneCallInFlight == Cardinality(assistCalls) <= 1

\* ------------------------------------------------------------------ C32
\* C32: when the response of a call of the open session is merged after the
\* working set was edited while the call was in flight, the merged working set
\* is the working set of the moment of the response, every box of it unchanged
\* and in place, followed by the suggested boxes, and not the boxes the request
\* was issued with
C32_EditsInFlightAreKept ==
  [][\A c \in assistCalls : \A payload \in AssistPayloads :
       (c.live /\ c.existingBoxes # boxes /\ AssistResolved(c, payload))
       => LET n == Len(boxes') - Len(boxes)
          IN /\ n = Len(validatedNewBoxes(payload, nextId))
             /\ SubSeq(boxes', 1, Len(boxes)) = boxes
             /\ \A k \in 1..n : boxes'[Len(boxes) + k].source = "gemini-assisted"
             /\ SubSeq(boxes', 1, Len(boxes') - n) # c.existingBoxes]_vars

\* C32: a call of the open session is in flight, the working set is no longer
\* the one the request was issued with, and a suggestion can still be merged
C32_Witness ==
  \E c \in assistCalls :
    /\ c.live
    /\ c.existingBoxes # boxes
    /\ boxes # <<>>
    /\ Len(boxes) < MaxBoxes
    /\ nextId <= MaxId
    /\ apiKeyPresent

\* ------------------------------------------------------------------ C33
\* the calls in flight whose session was closed, by Save or by the close button
CallsOfClosedSessions == {c \in assistCalls : ~c.live}

\* C33: the response of an assist call whose session was closed, a resolution
\* with any payload or a failure, changes neither the Result Store nor the
\* working set, the selection and the assist state of an editor session opened
\* later, and it opens no editor
C33_LateResponseChangesNothing ==
  [][\A c \in CallsOfClosedSessions :
       (\/ \E payload \in AssistPayloads : AssistResolved(c, payload)
        \/ \E m \in AssistFailures : AssistRejected(c, m))
       => UNCHANGED <<processedResults, editingState, boxes, selectedBoxId,
                      assistPrompt, isAssisting, assistError>>]_vars

\* C33: an editor session is open on boxes while the call of a closed session
\* is still in flight and its response can arrive
C33_Witness ==
  /\ EditorOpen
  /\ boxes # <<>>
  /\ CallsOfClosedSessions # {}
  /\ apiKeyPresent
  /\ nextId < MaxId
  /\ Len(boxes) < MaxBoxes

\* ------------------------------------------------------------------ C34
\* C34: whenever the engine is in Move or Resize the gesture record that the
\* pointer-move handler needs is present, and a Resize on the se handle is
\* followed by pointer-moves that resize: some pointer-move changes the width
\* or the height of the selected box
C34_ResizeIsNeverDead ==
  /\ interactionMode \in {"move", "resize"} => currentDrawingBox # Null
  /\ (interactionMode = "resize" /\ resizeHandle = "se" /\ selectedBoxDetails # Null)
     => \E p \in AllPoints :
          ENABLED (/\ MouseMove(p)
                   /\ \E i \in DOMAIN boxes' :
                        /\ boxes'[i].id = selectedBoxId
                        /\ <<boxes'[i].width, boxes'[i].height>>
                             # <<selectedBoxDetails.width, selectedBoxDetails.height>>)

\* ------------------------------------------------------------------ C35
\* C35: in every state of an open editor the selection is empty or it is the
\* id of a box of the working set
C35_SelectionIsInTheWorkingSet ==
  EditorOpen => selectedBoxId = NoId \/ \E i \in DOMAIN boxes : boxes[i].id = selectedBoxId

\* C35: the selection is a suggestion that was merged into the working set and
\* then selected, the only box the working set has
C35_Witness ==
  /\ EditorOpen
  /\ Len(boxes) = 1
  /\ boxes[1].id = selectedBoxId
  /\ boxes[1].source = "gemini-assisted"
  /\ boxes[1].id >= 2

\* ------------------------------------------------------------------ C36
\* C36: the Result Store holds at most one entry for an image id
C36_OneEntryPerImage ==
  \A i, j \in DOMAIN processedResults :
    i # j => processedResults[i].imageId # processedResults[j].imageId

\* ------------------------------------------------------------------ C37
\* C37: the source of a box becomes human-edited only in a step that changes
\* the x_min, y_min, width, height or label of that box; a step that leaves the
\* geometry and the label of a box as they were leaves its source as it was
C37_HumanEditedMeansChanged ==
  [][\A i \in DOMAIN boxes : \A j \in DOMAIN boxes' :
       (/\ boxes'[j].id = boxes[i].id
        /\ Geometry(boxes'[j]) = Geometry(boxes[i])
        /\ boxes'[j].label = boxes[i].label)
       => boxes'[j].source = boxes[i].source]_vars

\* ------------------------------------------------------------------ C38
\* C38: when the user gives no label at the end of a draw of non-zero area, no
\* box is added, the working set and the selection stay as they are, the box in
\* progress is discarded and the engine stays in Draw
C38_NoLabelNoBox ==
  [][(interactionMode = "draw" /\ DrawnExtent(currentDrawingBox) /\ MouseUp(""))
     => /\ boxes' = boxes
        /\ selectedBoxId' = selectedBoxId
        /\ currentDrawingBox' = Null
        /\ interactionMode' = "draw"
        /\ nextId' = nextId]_vars

\* C38: a box of non-zero area is being drawn while another box is selected and
\* the working set has room for it
C38_Witness ==
  /\ interactionMode = "draw"
  /\ DrawnExtent(currentDrawingBox)
  /\ pointer # Null
  /\ selectedBoxId # NoId
  /\ Len(boxes) < MaxBoxes
  /\ nextId <= MaxId

\* ------------------------------------------------------------------ C39
\* C39: in an open editor any two boxes of the working set that have the same
\* label have the same display color
C39_OneColorPerLabel ==
  EditorOpen => \A i, j \in DOMAIN boxes :
                  boxes[i].label = boxes[j].label => boxes[i].color = boxes[j].color

====
